---- MODULE Spec2Model ----
(***************************************************************************)
(* relational/run.py.  Three specifications:                              *)
(*   Spec         gen_main_trials: the greedy streak-bounded placement     *)
(*                with bounded restarts, then the per-trial enrichment;    *)
(*   SpecWM       gen_wm_trials: the factorial list and its shuffle;       *)
(*   SpecSession  main: the blocks in order, run_wm_task and run_main_task *)
(*                trial by trial, the except and finally clauses.          *)
(*                                                                         *)
(* The seeded generator random.Random(seed) is library code.  Its draws    *)
(* are modelled as nondeterministic choices: a shuffle may leave the list  *)
(* in any order, a sample may return any ordered pair of distinct names.   *)
(*                                                                         *)
(* Scale.  The source runs 4 stimuli, RULE_REPS = 5, MAX_STREAK = 3 and    *)
(* 200 restarts (120 items).  The model keeps the code and shrinks the     *)
(* data: 2 stimuli, RULE_REPS = 2, MAX_STREAK = 2, MaxAttempts restarts    *)
(* (8 items, 4 ABA and 4 ABB).  This is the smallest instance of the code  *)
(* in which a greedy attempt can get stuck.  WM_REPS is 2 for 3 and         *)
(* TRIALS_PER_RUN is 2 for 30, so that N_RUNS * TRIALS_PER_RUN is still    *)
(* the number of main trials; RESPONSE_KEYS has one key per stimulus.      *)
(***************************************************************************)
EXTENDS Integers, Sequences, FiniteSets, TLC

VARIABLES
    pc,         \* position in gen_main_trials
    attempt,    \* iterations of `for _ in range(200)` started so far
    indices,    \* the list shuffled in place by rng.shuffle
    placed,     \* indices placed by the current attempt
    pool,       \* remaining indices of the current attempt, in shuffled order
    result,     \* None, or the accepted placement, or the fallback
    exhausted,  \* TRUE iff the branch `if result is None` was taken
    shuffled,   \* history: what the most recent rng.shuffle produced
    trials,     \* the list returned
    rng,        \* history: the draws made from rng = random.Random(seed)
    wpc,          \* position in gen_wm_trials
    wm_trials,    \* gen_wm_trials: trials; run_wm_task: trials
    s_pc,         \* position in main and in the task runners
    it_run,       \* run_main_task: how many run_idx range(N_RUNS) has yielded
    it_trial,     \* how many trials the enumerate of the running loop has yielded
    run_idx,      \* run_main_task: run_idx
    run_trials,   \* run_main_task: run_trials
    t_rel,        \* run_main_task: t_rel
    t_idx,        \* t_idx of the trial being run
    trial,        \* the loop variable trial
    presented,    \* history: block and t_idx of every trial presented
    slot_mapping, \* slot_mapping of the trial being run
    resp,         \* what event.waitKeys returned for the trial being run
    row,          \* the row last handed to writer.writerow
    csv,          \* the file: columns block and trial of the rows written
    csv_file,     \* "open" or "closed"
    win,          \* "open" or "closed"
    exc,          \* the exceptions in flight, the latest last
    events        \* history: blocks completed, log entries, clean-up calls

gen == <<pc, attempt, indices, placed, pool, result, exhausted, shuffled, rng>>

wm == <<wpc, wm_trials>>

sess == <<s_pc, it_run, it_trial, run_idx, run_trials, t_rel, t_idx, trial, presented,
          slot_mapping, resp, row, csv, csv_file, win, exc, events>>

vars == <<gen, trials, wm, sess>>

-----------------------------------------------------------------------------
(* Constants of the program *)

\* STIM_NAMES (the source lists four names; the model keeps the first two)
STIM_NAMES == <<"circle", "rectangle">>

\* the literal list ['ABA', 'ABB'] of the comprehension
RULES == <<"ABA", "ABB">>

\* RULE_REPS (5 in the source, scaled)
RULE_REPS == 2

\* MAX_STREAK (3 in the source, scaled)
MAX_STREAK == 2

\* range(200): the number of restart attempts, capped
MaxAttempts == 2

\* Python's None, for `result` and for `forbidden`
None == << -1 >>
NoLabel == "None"

-----------------------------------------------------------------------------
(* Strings built with ','.join and read back with .split(','): a string is *)
(* modelled as its sequence of tokens, stimulus names and commas.          *)

RECURSIVE Join(_)
Join(names) ==
    IF Len(names) = 0 THEN <<>>
    ELSE IF Len(names) = 1 THEN <<names[1]>>
    ELSE <<names[1], ",">> \o Join(Tail(names))

\* f'{a_prime},{b_prime}'
FormatTest(a_prime, b_prime) == <<a_prime, ",", b_prime>>

\* str.split(','): the fields between the commas, each a token string
RECURSIVE Split(_)
Split(s) ==
    IF \A k \in 1..Len(s) : s[k] # "," THEN <<s>>
    ELSE LET c == CHOOSE k \in 1..Len(s) :
                      s[k] = "," /\ \A m \in 1..(k - 1) : s[m] # ","
         IN  <<SubSeq(s, 1, c - 1)>> \o Split(SubSeq(s, c + 1, Len(s)))

-----------------------------------------------------------------------------
(* configs and base *)

NStim == Len(STIM_NAMES)

\* itertools.permutations(STIM_NAMES, 2): ordered pairs of distinct
\* positions, in lexicographic order of the positions
StimPairs ==
    [k \in 1..(NStim * (NStim - 1)) |->
        LET i == (k - 1) \div (NStim - 1)
            r == (k - 1) % (NStim - 1)
            j == IF r < i THEN r ELSE r + 1
        IN  <<STIM_NAMES[i + 1], STIM_NAMES[j + 1]>>]

\* configs: for a, b in permutations(...) for rule in ['ABA', 'ABB']
configs ==
    [c \in 1..(Len(StimPairs) * Len(RULES)) |->
        [A_stim    |-> StimPairs[((c - 1) \div Len(RULES)) + 1][1],
         B_stim    |-> StimPairs[((c - 1) \div Len(RULES)) + 1][2],
         rule_type |-> RULES[((c - 1) % Len(RULES)) + 1]]]

NConfigs == Len(configs)

\* len(base)
N == NConfigs * RULE_REPS

\* base = configs * RULE_REPS, indexed from 0 as in the source
base == [idx \in 0..(N - 1) |-> configs[(idx % NConfigs) + 1]]

\* list(range(len(base)))
RangeN == [k \in 1..N |-> k - 1]

-----------------------------------------------------------------------------
(* rng.shuffle(indices): any order of the N indices.  Placement reads an   *)
(* item's rule_type and nothing else, so the orders are bounded to one per *)
(* pattern of rule labels: every sequence of ABA/ABB labels the N items    *)
(* can form is enumerated, with the items of one label listed in           *)
(* increasing index order.                                                 *)

RECURSIVE OrdersOf(_)
OrdersOf(S) ==
    IF S = {} THEN {<<>>}
    ELSE UNION { { <<x>> \o p : p \in OrdersOf(S \ {x}) } :
                 x \in { y \in S : \A z \in S :
                            (base[z].rule_type = base[y].rule_type) => z >= y } }

ShuffleOutcomes == OrdersOf(0..(N - 1))

\* rng.sample(STIM_NAMES, 2): an ordered pair of distinct names
Sample2Repl ==
    { <<STIM_NAMES[i], STIM_NAMES[j]>> : i \in 1..NStim, j \in 1..NStim }
Sample2 ==
    { s \in Sample2Repl : s[1] # s[2] }

\* the stream of rng after one more rng.shuffle, the one of attempt a
ShuffleDraw(stream, a) == Append(stream, [op |-> "shuffle", n |-> a])

\* the stream of rng after one more rng.sample, the one of output position k
SampleDrawReseeded(stream, k) == << [op |-> "sample", n |-> k] >>
SampleDraw(stream, k) == Append(stream, [op |-> "sample", n |-> k])

-----------------------------------------------------------------------------
(* One placement step *)

\* the rule label forbidden for the next placement, or NoLabel
ForbiddenLate(pl) ==
    IF Len(pl) >= MAX_STREAK + 1
    THEN LET tail == { base[pl[Len(pl) - i]].rule_type :
                         i \in 0..MAX_STREAK }
         IN  IF Cardinality(tail) = 1 THEN CHOOSE x \in tail : TRUE
             ELSE NoLabel
    ELSE NoLabel
Forbidden(pl) ==
    IF Len(pl) >= MAX_STREAK
    THEN LET tail == { base[pl[Len(pl) - i]].rule_type :
                         i \in 0..(MAX_STREAK - 1) }
         IN  IF Cardinality(tail) = 1 THEN CHOOSE x \in tail : TRUE
             ELSE NoLabel
    ELSE NoLabel

\* position (from 1) of the first pool item that is not forbidden, or -1
FoundLast(po, forbidden) ==
    LET ok == { k \in 1..Len(po) :
                  forbidden = NoLabel \/ base[po[k]].rule_type # forbidden }
    IN  IF ok = {} THEN -1
        ELSE CHOOSE k \in ok : \A m \in ok : k >= m
FoundHeadOnly(po, forbidden) ==
    IF forbidden = NoLabel \/ base[po[1]].rule_type # forbidden THEN 1 ELSE -1
Found(po, forbidden) ==
    LET ok == { k \in 1..Len(po) :
                  forbidden = NoLabel \/ base[po[k]].rule_type # forbidden }
    IN  IF ok = {} THEN -1
        ELSE CHOOSE k \in ok : \A m \in ok : k <= m

\* pool after pool.pop(found)
PopHead(po, found) == Tail(po)
PopKeep(po, found) == po
PopLast(po, found) == SubSeq(po, 1, Len(po) - 1)
Pop(po, found) ==
    [k \in 1..(Len(po) - 1) |-> IF k < found THEN po[k] ELSE po[k + 1]]

\* lines 164-165
FallbackUnshuffled(res, ix) == IF res = None THEN RangeN ELSE res
FallbackPlaced(res, ix) == IF res = None THEN placed ELSE res
Fallback(res, ix) == IF res = None THEN ix ELSE res

\* rule_seq
RuleSeqSwapped(a, b, rule) == IF rule = "ABA" THEN <<a, b, b>> ELSE <<a, b, a>>
RuleSeq(a, b, rule) == IF rule = "ABA" THEN <<a, b, a>> ELSE <<a, b, b>>

\* correct = a_prime if rule == 'ABA' else b_prime
CorrectSwapped(rule, a_prime, b_prime) ==
    IF rule = "ABA" THEN b_prime ELSE a_prime
Correct(rule, a_prime, b_prime) ==
    IF rule = "ABA" THEN a_prime ELSE b_prime

\* the dict appended to trials
Trial(idx, a_prime, b_prime) ==
    LET cfg == base[idx]
    IN  [rule_type         |-> cfg.rule_type,
         A_stim            |-> cfg.A_stim,
         B_stim            |-> cfg.B_stim,
         A_prime           |-> a_prime,
         B_prime           |-> b_prime,
         rule_sequence     |-> Join(RuleSeq(cfg.A_stim, cfg.B_stim, cfg.rule_type)),
         test_sequence     |-> FormatTest(a_prime, b_prime),
         correct_next_stim |-> Correct(cfg.rule_type, a_prime, b_prime)]

-----------------------------------------------------------------------------
(* The values of the variables of a function that is not running *)

NoTrial == [none |-> TRUE]
NoRow == [none |-> TRUE]
NoResult == [none |-> TRUE]

GenIdle ==
    /\ pc = "idle"
    /\ attempt = 0
    /\ indices = <<>>
    /\ placed = <<>>
    /\ pool = <<>>
    /\ result = None
    /\ exhausted = FALSE
    /\ shuffled = <<>>
    /\ rng = <<>>

WmIdle ==
    /\ wpc = "idle"
    /\ wm_trials = <<>>

RunnerIdle ==
    /\ it_run = 0
    /\ it_trial = 0
    /\ run_idx = 0
    /\ run_trials = <<>>
    /\ t_rel = 0
    /\ t_idx = 0
    /\ trial = NoTrial
    /\ slot_mapping = <<>>
    /\ resp = NoResult
    /\ row = NoRow

SessIdle ==
    /\ s_pc = "idle"
    /\ RunnerIdle
    /\ presented = <<>>
    /\ csv = <<>>
    /\ csv_file = "closed"
    /\ win = "closed"
    /\ exc = <<>>
    /\ events = <<>>

-----------------------------------------------------------------------------
(* gen_main_trials *)

Init ==
    /\ pc = "loop"
    /\ attempt = 0
    /\ indices = RangeN
    /\ placed = <<>>
    /\ pool = <<>>
    /\ result = None
    /\ exhausted = FALSE
    /\ shuffled = RangeN
    /\ trials = <<>>
    /\ rng = <<>>
    /\ WmIdle
    /\ SessIdle

\* lines 136-139: a further iteration of the for loop starts
Shuffle ==
    /\ pc = "loop"
    /\ attempt < MaxAttempts
    /\ \E p \in ShuffleOutcomes :
          /\ indices' = p
          /\ shuffled' = p
          /\ pool' = p
    /\ placed' = <<>>
    /\ attempt' = attempt + 1
    /\ rng' = ShuffleDraw(rng, attempt + 1)
    /\ pc' = "place"
    /\ UNCHANGED <<result, exhausted, trials>>
    /\ UNCHANGED <<wm, sess>>

\* lines 141-158: one iteration of `while pool` that finds an item
Place ==
    /\ pc = "place"
    /\ pool # <<>>
    /\ LET found == Found(pool, Forbidden(placed))
       IN  /\ found # -1
           /\ placed' = Append(placed, pool[found])
           /\ pool' = Pop(pool, found)
    /\ UNCHANGED <<pc, attempt, indices, result, exhausted, shuffled, trials, rng>>
    /\ UNCHANGED <<wm, sess>>

\* the while loop ends (pool empty, or the break of line 157), then
\* lines 160-162
EndAttempt ==
    /\ pc = "place"
    /\ pool = <<>> \/ Found(pool, Forbidden(placed)) = -1
    /\ IF Len(placed) = N
       THEN result' = placed /\ pc' = "after"
       ELSE result' = result /\ pc' = "loop"
    /\ UNCHANGED <<attempt, indices, placed, pool, exhausted, shuffled, trials, rng>>
    /\ UNCHANGED <<wm, sess>>

\* range(200) is used up
LoopExhausted ==
    /\ pc = "loop"
    /\ attempt >= MaxAttempts
    /\ pc' = "after"
    /\ UNCHANGED <<attempt, indices, placed, pool, result, exhausted, shuffled, trials, rng>>
    /\ UNCHANGED <<wm, sess>>

\* lines 164-165
SelectResult ==
    /\ pc = "after"
    /\ exhausted' = (result = None)
    /\ result' = Fallback(result, indices)
    /\ pc' = "enrich"
    /\ UNCHANGED <<attempt, indices, placed, pool, shuffled, trials, rng>>
    /\ UNCHANGED <<wm, sess>>

\* lines 168-186: one iteration of `for idx in result`
Enrich ==
    /\ pc = "enrich"
    /\ Len(trials) < Len(result)
    /\ \E s \in Sample2 :
          trials' = Append(trials, Trial(result[Len(trials) + 1], s[1], s[2]))
    /\ rng' = SampleDraw(rng, Len(trials) + 1)
    /\ UNCHANGED <<pc, attempt, indices, placed, pool, result, exhausted, shuffled>>
    /\ UNCHANGED <<wm, sess>>

\* line 187
Return ==
    /\ pc = "enrich"
    /\ Len(trials) >= Len(result)
    /\ pc' = "done"
    /\ UNCHANGED <<attempt, indices, placed, pool, result, exhausted, shuffled, trials, rng>>
    /\ UNCHANGED <<wm, sess>>

Next ==
    \/ Shuffle
    \/ Place
    \/ EndAttempt
    \/ LoopExhausted
    \/ SelectResult
    \/ Enrich
    \/ Return

Spec == Init /\ [][Next]_vars

-----------------------------------------------------------------------------
(* gen_wm_trials.  ISI conditions are in tenths of a second.  The shuffle   *)
(* may leave the list in any arrangement; two arrangements that differ     *)
(* only in which of two equal dicts comes first are the same list.         *)

WM_ISI_CONDITIONS == <<10, 25>>

WM_REPS == 2

NIsi == Len(WM_ISI_CONDITIONS)

WmBaseShort ==
    [k \in 1..(NStim * NIsi * (WM_REPS - 1)) |->
        [sample_stim   |-> STIM_NAMES[((k - 1) \div (NIsi * (WM_REPS - 1))) + 1],
         isi_condition |-> WM_ISI_CONDITIONS[(((k - 1) \div (WM_REPS - 1)) % NIsi) + 1]]]

\* The list comprehension: for stim, for isi, for _ in range(WM_REPS).
WmBase ==
    [k \in 1..(NStim * NIsi * WM_REPS) |->
        [sample_stim   |-> STIM_NAMES[((k - 1) \div (NIsi * WM_REPS)) + 1],
         isi_condition |-> WM_ISI_CONDITIONS[(((k - 1) \div WM_REPS) % NIsi) + 1]]]

RECURSIVE ArrangementsOf(_, _)
ArrangementsOf(list, S) ==
    IF S = {} THEN {<<>>}
    ELSE UNION { { <<list[x]>> \o q : q \in ArrangementsOf(list, S \ {x}) } :
                 x \in { y \in S : \A z \in S : list[z] = list[y] => z >= y } }

InitWM ==
    /\ GenIdle
    /\ trials = <<>>
    /\ SessIdle
    /\ wpc = "build"
    /\ wm_trials = <<>>

\* lines 108-113
WmBuild ==
    /\ wpc = "build"
    /\ wm_trials' = WmBase
    /\ wpc' = "shuffle"
    /\ UNCHANGED <<gen, trials, sess>>

\* line 114: random.Random(seed).shuffle(trials)
WmShuffle ==
    /\ wpc = "shuffle"
    /\ wm_trials' \in ArrangementsOf(wm_trials, DOMAIN wm_trials)
    /\ wpc' = "return"
    /\ UNCHANGED <<gen, trials, sess>>

\* line 115
WmReturn ==
    /\ wpc = "return"
    /\ wpc' = "done"
    /\ UNCHANGED <<wm_trials, gen, trials, sess>>

NextWM ==
    \/ WmBuild
    \/ WmShuffle
    \/ WmReturn

SpecWM == InitWM /\ [][NextWM]_vars

-----------------------------------------------------------------------------
(* The response screen and the row of a trial *)

RESPONSE_KEYS == <<"1", "2">>

N_RUNS == 4

TRIALS_PER_RUN == 2

\* What the participant may do: reaction times in tenths of a second.
ReactionTimes == {7}

\* event.waitKeys: None when maxWait passes, else the first (key, rt).
WaitKeysResults ==
    {NoResult} \cup
    { [none |-> FALSE, key |-> RESPONSE_KEYS[i], rt |-> t] :
        i \in DOMAIN RESPONSE_KEYS, t \in ReactionTimes }

\* make_slot_mapping: random.shuffle of a copy of STIM_NAMES.
SlotMappings == ArrangementsOf(STIM_NAMES, DOMAIN STIM_NAMES)

\* None, where the field otherwise holds a string and where it holds a number.
PyNone == "None"

NoNumber == -1

DecimalDigits == <<"0", "1", "2", "3", "4", "5", "6", "7", "8", "9">>

\* int(response_key)
IntOf(key) == (CHOOSE d \in DOMAIN DecimalDigits : DecimalDigits[d] = key) - 1

ResponseKey(res) == IF res.none THEN PyNone ELSE res.key

ResponseRt(res) == IF res.none THEN NoNumber ELSE res.rt

ResponseSlot(res) == IF res.none THEN NoNumber ELSE IntOf(res.key)

\* slot_mapping[response_slot - 1], the list being 0-based in the source.
ResponseStim(res, mapping) ==
    IF res.none THEN PyNone ELSE mapping[(ResponseSlot(res) - 1) + 1]

ScoreFirstSlot(res, mapping, target) ==
    IF mapping[1] = target THEN 1 ELSE 0

\* correct = int(response_stim == target), and 0 on a timeout.
Score(res, mapping, target) ==
    IF res.none THEN 0
    ELSE IF ResponseStim(res, mapping) = target THEN 1 ELSE 0

WmBlock == <<"WM">>

\* f'main_run{run_idx + 1}'
MainBlock(r) == <<"main_run", r + 1>>

WmRow(i, tr, mapping, res) ==
    [block         |-> WmBlock,
     trial         |-> i,
     sample_stim   |-> tr.sample_stim,
     isi_condition |-> tr.isi_condition,
     slot_mapping  |-> Join(mapping),
     correct_stim  |-> tr.sample_stim,
     response_key  |-> ResponseKey(res),
     response_slot |-> ResponseSlot(res),
     response_stim |-> ResponseStim(res, mapping),
     correct       |-> Score(res, mapping, tr.sample_stim),
     rt            |-> ResponseRt(res)]

MainRow(r, i, tr, mapping, res) ==
    [block             |-> MainBlock(r),
     trial             |-> i,
     rule_type         |-> tr.rule_type,
     A_stim            |-> tr.A_stim,
     B_stim            |-> tr.B_stim,
     A_prime           |-> tr.A_prime,
     B_prime           |-> tr.B_prime,
     rule_sequence     |-> tr.rule_sequence,
     test_sequence     |-> tr.test_sequence,
     correct_next_stim |-> tr.correct_next_stim,
     slot_mapping      |-> Join(mapping),
     correct_stim      |-> tr.correct_next_stim,
     response_key      |-> ResponseKey(res),
     response_slot     |-> ResponseSlot(res),
     response_stim     |-> ResponseStim(res, mapping),
     correct           |-> Score(res, mapping, tr.correct_next_stim),
     rt                |-> ResponseRt(res)]

Min(a, b) == IF a < b THEN a ELSE b

RunTrialsFirst(ts, r) ==
    SubSeq(ts, 1, Min(TRIALS_PER_RUN, Len(ts)))

\* trials[run_idx * TRIALS_PER_RUN:(run_idx + 1) * TRIALS_PER_RUN]
RunTrials(ts, r) ==
    SubSeq(ts, Min(r * TRIALS_PER_RUN, Len(ts)) + 1,
               Min((r + 1) * TRIALS_PER_RUN, Len(ts)))

TIdx(r, rel) == r * TRIALS_PER_RUN + rel

-----------------------------------------------------------------------------
(* What gen_main_trials returns to run_main_task when an attempt is       *)
(* accepted: the items in an order that obeys the streak bound (a shuffle  *)
(* that leaves such an order is placed as it stands), the probes of each   *)
(* trial any outcome of the sample.  The orders are those of               *)
(* ShuffleOutcomes and the samples alternate between two outcomes.         *)

StreakValid(p) ==
    \A k \in 1..(Len(p) - MAX_STREAK) :
        \E m \in 1..MAX_STREAK :
            base[p[k + m]].rule_type # base[p[k]].rule_type

SamplePatterns ==
    { [k \in 1..N |-> IF k % 2 = 1 THEN odd ELSE even] :
        odd \in Sample2, even \in Sample2 }

MainReturns ==
    { [k \in 1..N |-> Trial(p[k], ss[k][1], ss[k][2])] :
        p \in { q \in ShuffleOutcomes : StreakValid(q) }, ss \in SamplePatterns }

-----------------------------------------------------------------------------
(* main, from the try statement on: the window is open, the CSV file is    *)
(* open and its header written.                                            *)

InitSession ==
    /\ GenIdle
    /\ trials = <<>>
    /\ WmIdle
    /\ s_pc = "instr_wm"
    /\ RunnerIdle
    /\ presented = <<>>
    /\ csv = <<>>
    /\ csv_file = "open"
    /\ win = "open"
    /\ exc = <<>>
    /\ events = <<>>

\* A task runner returns or is unwound: its locals are gone.
RunnerGone ==
    /\ it_run' = 0
    /\ it_trial' = 0
    /\ run_idx' = 0
    /\ run_trials' = <<>>
    /\ t_rel' = 0
    /\ t_idx' = 0
    /\ trial' = NoTrial
    /\ slot_mapping' = <<>>
    /\ resp' = NoResult
    /\ row' = NoRow
    /\ trials' = <<>>
    /\ wm_trials' = <<>>

IterationLocalsDropped ==
    /\ slot_mapping' = <<>>
    /\ resp' = NoResult
    /\ row' = NoRow

\* lines 470-475
InstrWm ==
    /\ s_pc = "instr_wm"
    /\ events' = Append(events, "instr_wm")
    /\ s_pc' = "wm_call"
    /\ UNCHANGED <<gen, trials, wm, it_run, it_trial, run_idx, run_trials, t_rel,
                   t_idx, trial, presented, slot_mapping, resp, row, csv,
                   csv_file, win, exc>>

\* lines 476, 260: run_wm_task is called and calls gen_wm_trials(seed)
RunWmCall ==
    /\ s_pc = "wm_call"
    /\ events' = Append(events, "wm_task")
    /\ wm_trials' \in ArrangementsOf(WmBase, DOMAIN WmBase)
    /\ it_trial' = 0
    /\ s_pc' = "wm_trial"
    /\ UNCHANGED <<gen, trials, wpc, it_run, run_idx, run_trials, t_rel, t_idx,
                   trial, presented, slot_mapping, resp, row, csv, csv_file,
                   win, exc>>

\* lines 262-270: the next trial of enumerate(trials) is shown.  The
\* slot_mapping, result and row of the previous iteration are never read
\* again and are dropped here.
WmPresent ==
    /\ s_pc = "wm_trial"
    /\ it_trial < Len(wm_trials)
    /\ t_idx' = it_trial
    /\ trial' = wm_trials[it_trial + 1]
    /\ it_trial' = it_trial + 1
    /\ presented' = Append(presented, [block |-> WmBlock, trial |-> it_trial])
    /\ IterationLocalsDropped
    /\ s_pc' = "wm_respond"
    /\ UNCHANGED <<gen, trials, wm, it_run, run_idx, run_trials, t_rel,
                   csv, csv_file, win, exc, events>>

\* lines 272-289: the response screen
WmRespond ==
    /\ s_pc = "wm_respond"
    /\ slot_mapping' \in SlotMappings
    /\ resp' \in WaitKeysResults
    /\ s_pc' = "wm_write"
    /\ UNCHANGED <<gen, trials, wm, it_run, it_trial, run_idx, run_trials, t_rel,
                   t_idx, trial, presented, row, csv, csv_file, win, exc, events>>

\* lines 291-311: the row is built and written
WmWrite ==
    /\ s_pc = "wm_write"
    /\ row' = WmRow(t_idx, trial, slot_mapping, resp)
    /\ csv' = Append(csv, [block |-> row'.block, trial |-> row'.trial])
    /\ s_pc' = "wm_trial"
    /\ UNCHANGED <<gen, trials, wm, it_run, it_trial, run_idx, run_trials, t_rel,
                   t_idx, trial, presented, slot_mapping, resp, csv_file, win,
                   exc, events>>

\* line 262: enumerate(trials) is used up, run_wm_task returns
RunWmReturn ==
    /\ s_pc = "wm_trial"
    /\ it_trial >= Len(wm_trials)
    /\ RunnerGone
    /\ events' = Append(events, "wm_task_done")
    /\ s_pc' = "instr_rest"
    /\ UNCHANGED <<gen, wpc, presented, csv, csv_file, win, exc>>

\* lines 480-485
InstrRest ==
    /\ s_pc = "instr_rest"
    /\ events' = Append(events, "instr_rest")
    /\ s_pc' = "rest"
    /\ UNCHANGED <<gen, trials, wm, it_run, it_trial, run_idx, run_trials, t_rel,
                   t_idx, trial, presented, slot_mapping, resp, row, csv,
                   csv_file, win, exc>>

\* lines 486, 314-317
RunRest ==
    /\ s_pc = "rest"
    /\ events' = events \o <<"rest", "rest_done">>
    /\ s_pc' = "instr_main"
    /\ UNCHANGED <<gen, trials, wm, it_run, it_trial, run_idx, run_trials, t_rel,
                   t_idx, trial, presented, slot_mapping, resp, row, csv,
                   csv_file, win, exc>>

\* lines 489-496
InstrMain ==
    /\ s_pc = "instr_main"
    /\ events' = Append(events, "instr_main")
    /\ s_pc' = "main_call"
    /\ UNCHANGED <<gen, trials, wm, it_run, it_trial, run_idx, run_trials, t_rel,
                   t_idx, trial, presented, slot_mapping, resp, row, csv,
                   csv_file, win, exc>>

\* lines 497, 322: run_main_task is called and calls gen_main_trials(seed)
RunMainCall ==
    /\ s_pc = "main_call"
    /\ events' = Append(events, "main_task")
    /\ trials' \in MainReturns
    /\ it_run' = 0
    /\ s_pc' = "main_run"
    /\ UNCHANGED <<gen, wm, it_trial, run_idx, run_trials, t_rel, t_idx, trial,
                   presented, slot_mapping, resp, row, csv, csv_file, win, exc>>

\* lines 324-332: the next run_idx of range(N_RUNS), its slice of trials
MainRun ==
    /\ s_pc = "main_run"
    /\ it_run < N_RUNS
    /\ run_idx' = it_run
    /\ it_run' = it_run + 1
    /\ run_trials' = RunTrials(trials, it_run)
    /\ it_trial' = 0
    /\ s_pc' = "main_trial"
    /\ UNCHANGED <<gen, trials, wm, t_rel, t_idx, trial, presented,
                   slot_mapping, resp, row, csv, csv_file, win, exc, events>>

\* lines 334-371: the next trial of enumerate(run_trials) is shown; the
\* previous iteration's slot_mapping, result and row are dropped as above.
MainPresent ==
    /\ s_pc = "main_trial"
    /\ it_trial < Len(run_trials)
    /\ t_rel' = it_trial
    /\ trial' = run_trials[it_trial + 1]
    /\ it_trial' = it_trial + 1
    /\ t_idx' = TIdx(run_idx, it_trial)
    /\ presented' = Append(presented,
                           [block |-> MainBlock(run_idx), trial |-> t_idx'])
    /\ IterationLocalsDropped
    /\ s_pc' = "main_respond"
    /\ UNCHANGED <<gen, trials, wm, it_run, run_idx, run_trials,
                   csv, csv_file, win, exc, events>>

\* lines 373-391: the response screen
MainRespond ==
    /\ s_pc = "main_respond"
    /\ slot_mapping' \in SlotMappings
    /\ resp' \in WaitKeysResults
    /\ s_pc' = "main_write"
    /\ UNCHANGED <<gen, trials, wm, it_run, it_trial, run_idx, run_trials, t_rel,
                   t_idx, trial, presented, row, csv, csv_file, win, exc, events>>

\* lines 393-430: the ITI, then the row is built and written
MainWrite ==
    /\ s_pc = "main_write"
    /\ row' = MainRow(run_idx, t_idx, trial, slot_mapping, resp)
    /\ csv' = Append(csv, [block |-> row'.block, trial |-> row'.trial])
    /\ s_pc' = "main_trial"
    /\ UNCHANGED <<gen, trials, wm, it_run, it_trial, run_idx, run_trials, t_rel,
                   t_idx, trial, presented, slot_mapping, resp, csv_file, win,
                   exc, events>>

\* line 334: enumerate(run_trials) is used up, on to the next run
MainRunEnd ==
    /\ s_pc = "main_trial"
    /\ it_trial >= Len(run_trials)
    /\ s_pc' = "main_run"
    /\ UNCHANGED <<gen, trials, wm, it_run, it_trial, run_idx, run_trials, t_rel,
                   t_idx, trial, presented, slot_mapping, resp, row, csv,
                   csv_file, win, exc, events>>

\* line 324: range(N_RUNS) is used up, run_main_task returns
RunMainReturn ==
    /\ s_pc = "main_run"
    /\ it_run >= N_RUNS
    /\ RunnerGone
    /\ events' = Append(events, "main_task_done")
    /\ s_pc' = "end_screen"
    /\ UNCHANGED <<gen, wpc, presented, csv, csv_file, win, exc>>

\* line 501
EndScreen ==
    /\ s_pc = "end_screen"
    /\ events' = Append(events, "end_screen")
    /\ s_pc' = "log_finished"
    /\ UNCHANGED <<gen, trials, wm, it_run, it_trial, run_idx, run_trials, t_rel,
                   t_idx, trial, presented, slot_mapping, resp, row, csv,
                   csv_file, win, exc>>

\* line 503: the try body ends
LogFinished ==
    /\ s_pc = "log_finished"
    /\ events' = Append(events, "log_finished")
    /\ s_pc' = "finally_csv"
    /\ UNCHANGED <<gen, trials, wm, it_run, it_trial, run_idx, run_trials, t_rel,
                   t_idx, trial, presented, slot_mapping, resp, row, csv,
                   csv_file, win, exc>>

\* The positions inside the try body.
TryBody ==
    {"instr_wm", "wm_call", "wm_trial", "wm_respond", "wm_write",
     "instr_rest", "rest", "instr_main", "main_call", "main_run",
     "main_trial", "main_respond", "main_write", "end_screen", "log_finished"}

\* What a statement of the try body may raise: an Exception, or a
\* BaseException that `except Exception` does not catch.
Raisable == {"Exception", "KeyboardInterrupt"}

Caught(kind) == kind = "Exception"

\* A statement of the try body raises; the runners are unwound.
Raise ==
    /\ s_pc \in TryBody
    /\ \E kind \in Raisable :
        /\ exc' = <<kind>>
        /\ s_pc' = IF Caught(kind) THEN "except" ELSE "finally_csv"
    /\ RunnerGone
    /\ UNCHANGED <<gen, wpc, presented, csv, csv_file, win, events>>

\* lines 505-507: logging.error, then raise
Except ==
    /\ s_pc = "except"
    /\ events' = events \o <<"log_error", "raise">>
    /\ s_pc' = "finally_csv"
    /\ UNCHANGED <<gen, trials, wm, it_run, it_trial, run_idx, run_trials, t_rel,
                   t_idx, trial, presented, slot_mapping, resp, row, csv,
                   csv_file, win, exc>>

NextAfterCloseUnguarded(ok) == IF ok THEN "finally_win" ELSE "exited"

\* lines 510-513: the inner finally runs whether or not close() raised.
NextAfterClose(ok) == "finally_win"

\* line 511: csv_file.close(), which may raise
CloseCsv ==
    /\ s_pc = "finally_csv"
    /\ \E ok \in BOOLEAN :
        /\ csv_file' = IF ok THEN "closed" ELSE "close_failed"
        /\ exc' = IF ok THEN exc ELSE Append(exc, "OSError")
        /\ s_pc' = NextAfterClose(ok)
    /\ events' = Append(events, "csv_close")
    /\ UNCHANGED <<gen, trials, wm, it_run, it_trial, run_idx, run_trials, t_rel,
                   t_idx, trial, presented, slot_mapping, resp, row, csv, win>>

\* line 513
CloseWin ==
    /\ s_pc = "finally_win"
    /\ win' = "closed"
    /\ events' = Append(events, "win_close")
    /\ s_pc' = "quit"
    /\ UNCHANGED <<gen, trials, wm, it_run, it_trial, run_idx, run_trials, t_rel,
                   t_idx, trial, presented, slot_mapping, resp, row, csv,
                   csv_file, exc>>

\* line 514
Quit ==
    /\ s_pc = "quit"
    /\ events' = Append(events, "quit")
    /\ s_pc' = "exited"
    /\ UNCHANGED <<gen, trials, wm, it_run, it_trial, run_idx, run_trials, t_rel,
                   t_idx, trial, presented, slot_mapping, resp, row, csv,
                   csv_file, win, exc>>

NextSession ==
    \/ InstrWm
    \/ RunWmCall
    \/ WmPresent
    \/ WmRespond
    \/ WmWrite
    \/ RunWmReturn
    \/ InstrRest
    \/ RunRest
    \/ InstrMain
    \/ RunMainCall
    \/ MainRun
    \/ MainPresent
    \/ MainRespond
    \/ MainWrite
    \/ MainRunEnd
    \/ RunMainReturn
    \/ EndScreen
    \/ LogFinished
    \/ Raise
    \/ Except
    \/ CloseCsv
    \/ CloseWin
    \/ Quit

SpecSession == InitSession /\ [][NextSession]_vars

-----------------------------------------------------------------------------
(* Vocabulary of the properties *)

Stims == { STIM_NAMES[i] : i \in 1..NStim }

\* the full configuration space: every ordered pair A # B, both rule kinds
ConfigSpace ==
    { [A_stim |-> a, B_stim |-> b, rule_type |-> r] :
        a \in Stims, b \in Stims, r \in {"ABA", "ABB"} } \
    { [A_stim |-> a, B_stim |-> a, rule_type |-> r] :
        a \in Stims, r \in {"ABA", "ABB"} }

\* the configuration item of a trial record
ConfigOf(t) ==
    [A_stim |-> t.A_stim, B_stim |-> t.B_stim, rule_type |-> t.rule_type]

Occurrences(c) ==
    Cardinality({ k \in 1..Len(trials) : ConfigOf(trials[k]) = c })

\* positions k..k+MAX_STREAK of the returned list carry one rule label
SameLabelWindow(k) ==
    \A m \in 1..MAX_STREAK : trials[k + m].rule_type = trials[k].rule_type

\* the rule label of a base index
LabelOf(idx) == base[idx].rule_type

\* the label the last MAX_STREAK items of pl share, if there are that many
\* and they share one; NoLabel otherwise
SharedTailLabel(pl) ==
    IF /\ Len(pl) >= MAX_STREAK
       /\ MAX_STREAK >= 1
       /\ \A i \in 1..MAX_STREAK :
              LabelOf(pl[Len(pl) + 1 - i]) = LabelOf(pl[Len(pl)])
    THEN LabelOf(pl[Len(pl)])
    ELSE NoLabel

\* the pool is not empty and each of its items carries the forbidden label
AllForbidden ==
    /\ pool # <<>>
    /\ \A q \in 1..Len(pool) : LabelOf(pool[q]) = SharedTailLabel(placed)

\* position of index x in the sequence sq
PositionIn(sq, x) == CHOOSE k \in 1..Len(sq) : sq[k] = x

\* sq lists every base index once
IsOrderOfBase(sq) ==
    /\ Len(sq) = N
    /\ { sq[k] : k \in 1..Len(sq) } = 0..(N - 1)

\* the fields of a trial record
TrialFields ==
    {"rule_type", "A_stim", "B_stim", "A_prime", "B_prime",
     "rule_sequence", "test_sequence", "correct_next_stim"}

\* an upper bound of the number of steps left before the return
StepsAfterLoop ==
    IF pc = "done" THEN 0
    ELSE IF pc = "enrich" THEN 1 + (N - Len(trials))
    ELSE N + 2
StepsLeft ==
    IF pc \in {"loop", "place"}
    THEN (MaxAttempts - attempt) * (N + 2) + (N + 4)
         + (IF pc = "place" THEN Len(pool) + 1 ELSE 0)
    ELSE StepsAfterLoop

-----------------------------------------------------------------------------
(* Properties *)

\* C1: the returned list holds every configuration of the configuration
\* space exactly RULE_REPS times and nothing else, whether the placement
\* succeeded or the fallback was taken.
C1_MultisetConserved ==
    pc = "done" =>
        /\ Len(trials) = Cardinality(ConfigSpace) * RULE_REPS
        /\ \A k \in 1..Len(trials) : ConfigOf(trials[k]) \in ConfigSpace
        /\ \A c \in ConfigSpace : Occurrences(c) = RULE_REPS

C1_Witness ==
    /\ pc = "done"
    /\ exhausted
    /\ Len(trials) = N

\* C2: unless the fallback was taken, no MAX_STREAK + 1 consecutive items of
\* the returned list carry the same rule_type.
C2_StreakBound ==
    (pc = "done" /\ ~exhausted) =>
        \A k \in 1..(Len(trials) - MAX_STREAK) : ~SameLabelWindow(k)

C2_Witness ==
    /\ pc = "done"
    /\ ~exhausted
    /\ result # shuffled
    /\ Len(trials) > MAX_STREAK

\* C3: with the balanced split the restart loop never ends with result
\* still None, whatever orders the shuffles produce.
C3_NeverExhausted ==
    ~(pc = "after" /\ result = None)

\* C5: when every attempt got stuck the generator still returns, and the
\* returned list follows the order the last shuffle, that of the final
\* attempt, produced.
C5_FallbackIsLastShuffle ==
    (pc = "done" /\ exhausted) =>
        /\ attempt = MaxAttempts
        /\ Len(trials) = N
        /\ \A k \in 1..N : ConfigOf(trials[k]) = base[shuffled[k]]

C5_Witness ==
    /\ pc = "done"
    /\ exhausted
    /\ attempt = MaxAttempts
    /\ shuffled # RangeN
    /\ placed # <<>>

\* C6: a list returned by the fallback carries a flag that tells the caller
\* of the degradation: something beyond the trial fields.
C6_FallbackFlagged ==
    (pc = "done" /\ exhausted) =>
        \E k \in 1..Len(trials) : (DOMAIN trials[k]) \ TrialFields # {}

\* C8: gen_main_trials terminates: no more than MaxAttempts attempts are
\* started, every step (a placement removes one pool item, an abandoned
\* attempt uses up one attempt) lowers the bound StepsLeft, and a step is
\* possible until the function has returned.
C8_Terminates ==
    /\ [](attempt <= MaxAttempts /\ StepsLeft >= 0)
    /\ [](pc # "done" => ENABLED Next)
    /\ [][StepsLeft' < StepsLeft]_vars
    /\ [][pc = "place" /\ pc' = "place" => Len(pool') = Len(pool) - 1]_vars

C8_Witness ==
    /\ pc = "done"
    /\ attempt = MaxAttempts
    /\ exhausted
    /\ Len(placed) + Len(pool) = N

\* C9: in every trial record A_prime and B_prime are two different stimulus
\* names and test_sequence reads back as A_prime followed by B_prime.
C9_PrimesDistinct ==
    \A k \in 1..Len(trials) :
        /\ trials[k].A_prime \in Stims
        /\ trials[k].B_prime \in Stims
        /\ trials[k].A_prime # trials[k].B_prime
        /\ Split(trials[k].test_sequence)
               = << <<trials[k].A_prime>>, <<trials[k].B_prime>> >>

C9_Witness ==
    /\ pc = "done"
    /\ \E j, k \in 1..Len(trials) :
          /\ trials[j].A_prime = trials[j].A_stim
          /\ trials[k].A_prime = trials[k].B_stim

\* C10: correct_next_stim is A_prime for an ABA trial and B_prime for an ABB
\* trial.
C10_CorrectNext ==
    \A k \in 1..Len(trials) :
        /\ trials[k].rule_type = "ABA"
              => trials[k].correct_next_stim = trials[k].A_prime
        /\ trials[k].rule_type = "ABB"
              => trials[k].correct_next_stim = trials[k].B_prime

C10_Witness ==
    /\ pc = "done"
    /\ \E j, k \in 1..Len(trials) :
          /\ trials[j].rule_type = "ABA"
          /\ trials[k].rule_type = "ABB"
          /\ trials[j].A_prime = trials[k].A_prime
          /\ trials[j].correct_next_stim # trials[k].correct_next_stim

\* C11: rule_sequence reads back as A,B,A for an ABA trial and as A,B,B
\* otherwise, A and B being the record's A_stim and B_stim, which differ.
C11_RuleSequence ==
    \A k \in 1..Len(trials) :
        LET t == trials[k]
        IN  /\ t.A_stim \in Stims /\ t.B_stim \in Stims
            /\ t.A_stim # t.B_stim
            /\ Split(t.rule_sequence) =
                  IF t.rule_type = "ABA"
                  THEN << <<t.A_stim>>, <<t.B_stim>>, <<t.A_stim>> >>
                  ELSE << <<t.A_stim>>, <<t.B_stim>>, <<t.B_stim>> >>

C11_Witness ==
    /\ pc = "done"
    /\ \E j, k \in 1..Len(trials) :
          /\ trials[j].rule_type = "ABA"
          /\ trials[k].rule_type = "ABB"
          /\ trials[j].A_stim = trials[k].A_stim
          /\ trials[j].rule_sequence # trials[k].rule_sequence

\* C15: a placement step forbids the label shared by the last MAX_STREAK
\* placed items (none if fewer are placed or they differ), places the
\* earliest pool item whose label is not forbidden, and leaves the other
\* pool items in their order.
C15_GreedyStep ==
    [][(pc = "place" /\ placed' # placed) =>
          \E p \in 1..Len(pool) :
              /\ LabelOf(pool[p]) # SharedTailLabel(placed)
              /\ \A q \in 1..(p - 1) :
                    LabelOf(pool[q]) = SharedTailLabel(placed)
              /\ placed' = Append(placed, pool[p])
              /\ Len(pool') = Len(pool) - 1
              /\ \A q \in 1..(p - 1) : pool'[q] = pool[q]
              /\ \A q \in p..(Len(pool) - 1) : pool'[q] = pool[q + 1]]_vars

C15_Witness ==
    /\ pc = "place"
    /\ Len(placed) >= MAX_STREAK + 1
    /\ pool # <<>>
    /\ SharedTailLabel(SubSeq(placed, 1, Len(placed) - 1)) = LabelOf(pool[1])
    /\ LabelOf(placed[Len(placed)]) # LabelOf(pool[1])
    /\ PositionIn(shuffled, pool[1]) < PositionIn(shuffled, placed[Len(placed)])

\* C16: an attempt is abandoned exactly when the pool is not empty and all
\* its items carry the forbidden label; an attempt that empties the pool is
\* accepted as the result, and no shuffle follows an accepted result.
C16_AbandonAndAccept ==
    /\ [][(pc = "place" /\ pc' = "loop") => AllForbidden]_vars
    /\ [][(pc = "place" /\ AllForbidden) => pc' = "loop"]_vars
    /\ []((pc = "place" /\ AllForbidden) => (~ENABLED Place /\ ENABLED EndAttempt))
    /\ [][(pc = "place" /\ pool = <<>>) =>
             (Len(placed) = N /\ result' = placed /\ pc' = "after")]_vars
    /\ [][result # None =>
             (attempt' = attempt /\ indices' = indices /\ shuffled' = shuffled)]_vars

C16_Witness ==
    /\ pc = "done"
    /\ ~exhausted
    /\ attempt < MaxAttempts
    /\ result = placed

\* C17 as stated: on exhaustion the fallback is the index list in base
\* order 0..N-1.
C17_FallbackUnshuffled ==
    exhausted => result = RangeN

\* C17 as amended: on exhaustion the fallback is the index list in the
\* order the shuffle of the last attempt left it in, which is neither the
\* base order nor the partial placement of that attempt.
C17_FallbackIsShuffledList ==
    exhausted =>
        /\ result = indices
        /\ result = shuffled
        /\ result # RangeN
        /\ Len(placed) < Len(result)

C17_Witness ==
    /\ pc = "enrich"
    /\ exhausted
    /\ result # RangeN
    /\ placed # <<>>

\* C18: during and after an attempt placed and pool are disjoint, free of
\* duplicates and together hold the N base indices; an attempt starts with
\* placed empty and the pool full; a result is a complete order built by one
\* attempt or the shuffled list, never a partial placement; and placed obeys
\* the streak bound.
C18_PoolAndPlaced ==
    /\ [](attempt >= 1 => IsOrderOfBase(placed \o pool))
    /\ [][attempt' # attempt =>
             (placed' = <<>> /\ pool' = indices' /\ IsOrderOfBase(pool'))]_vars
    /\ [](result # None =>
             /\ IsOrderOfBase(result)
             /\ result = placed \/ (exhausted /\ result = indices))
    /\ [](\A k \in 1..(Len(placed) - MAX_STREAK) :
             \E m \in 1..MAX_STREAK :
                 LabelOf(placed[k + m]) # LabelOf(placed[k]))

C18_Witness ==
    /\ pc = "place"
    /\ attempt = 2
    /\ Len(placed) = 1
    /\ Len(pool) = N - 1

\* C13: one stream serves the whole run: the shuffle of attempt 1, of
\* attempt 2, ..., and, once the restart loop has ended, one sample per
\* output position in order; the stream is never started anew and a
\* placement step draws nothing.
C13_SingleStream ==
    /\ [](rng = [k \in 1..attempt |-> [op |-> "shuffle", n |-> k]]
                  \o [k \in 1..Len(trials) |-> [op |-> "sample", n |-> k]])
    /\ [](Len(trials) > 0 => pc \in {"enrich", "done"})
    /\ [][\A k \in 1..Len(rng) : Len(rng') >= k /\ rng'[k] = rng[k]]_vars
    /\ [][(pc = "place" \/ pc = "after") => rng' = rng]_vars

C13_Witness ==
    /\ pc = "done"
    /\ attempt = 2
    /\ Len(rng) = 2 + N
    /\ rng[2].op = "shuffle"
    /\ rng[3].op = "sample"

-----------------------------------------------------------------------------
(* gen_wm_trials *)

WmPairs == { [sample_stim |-> st, isi_condition |-> isi] :
             st \in Stims, isi \in { WM_ISI_CONDITIONS[i] : i \in 1..NIsi } }

WmOccurrences(list, pair) == Cardinality({ k \in DOMAIN list : list[k] = pair })

\* C12: the list gen_wm_trials returns holds every (stimulus, ISI
\* condition) pair exactly WM_REPS times and nothing else: its length is
\* |alphabet| * |isi conditions| * WM_REPS and each element is such a pair.
C12_FactorialComplete ==
    wpc \in {"return", "done"} =>
        /\ Len(wm_trials) = NStim * NIsi * WM_REPS
        /\ \A k \in DOMAIN wm_trials : wm_trials[k] \in WmPairs
        /\ \A pair \in WmPairs : WmOccurrences(wm_trials, pair) = WM_REPS

C12_Witness ==
    /\ wpc = "done"
    /\ wm_trials # WmBase
    /\ wm_trials[1] = WmBase[Len(WmBase)]

-----------------------------------------------------------------------------
(* run_wm_task and run_main_task *)

IsWmEntry(e) == e.block = WmBlock

IsMainEntry(e) == e.block[1] = "main_run"

WmPresented == SelectSeq(presented, IsWmEntry)

MainPresented == SelectSeq(presented, IsMainEntry)

RunnerPositions ==
    {"wm_trial", "wm_respond", "wm_write",
     "main_run", "main_trial", "main_respond", "main_write"}

\* A step that shows a trial shows the element of the generator's list at
\* the next position: the trials shown so far in the block are counted, the
\* element at that index is shown, and the list itself is left alone.
PresentsNextOfList ==
    presented' # presented =>
        /\ s_pc \in {"wm_trial", "main_trial"}
        /\ s_pc = "wm_trial" =>
            /\ t_idx' = Len(WmPresented)
            /\ trial' = wm_trials[t_idx' + 1]
            /\ presented' = Append(presented, [block |-> WmBlock, trial |-> t_idx'])
        /\ s_pc = "main_trial" =>
            /\ t_idx' = Len(MainPresented)
            /\ trial' = trials[t_idx' + 1]
            /\ presented' = Append(presented,
                   [block |-> MainBlock(t_idx' \div TRIALS_PER_RUN), trial |-> t_idx'])

\* Inside a runner nothing changes the lists, and the response and write
\* steps change nothing that decides which trial comes next.
ResponsesDoNotSteer ==
    (s_pc \in RunnerPositions /\ s_pc' \in RunnerPositions) =>
        /\ UNCHANGED <<trials, wm_trials>>
        /\ s_pc \in {"wm_respond", "wm_write", "main_respond", "main_write"} =>
            UNCHANGED <<presented, it_run, it_trial, run_idx, run_trials, t_idx, trial>>

\* A runner returns when its whole list has been shown: the WM list, and
\* N_RUNS runs of TRIALS_PER_RUN trials that cover indices 0..N-1.
AllPresentedAtReturn ==
    /\ (s_pc = "wm_trial" /\ it_trial >= Len(wm_trials)) =>
           Len(WmPresented) = Len(wm_trials)
    /\ (s_pc = "main_run" /\ it_run >= N_RUNS) =>
           /\ Len(MainPresented) = Len(trials)
           /\ Len(trials) = N_RUNS * TRIALS_PER_RUN
    /\ \A k \in DOMAIN WmPresented : WmPresented[k].trial = k - 1
    /\ \A k \in DOMAIN MainPresented :
           /\ MainPresented[k].trial = k - 1
           /\ MainPresented[k].block = MainBlock((k - 1) \div TRIALS_PER_RUN)

\* C14: run_wm_task and run_main_task show the trials of the generator's
\* list in the list's order, each once (the main task in N_RUNS runs of
\* TRIALS_PER_RUN trials with indices 0..N-1 increasing), and no response
\* or timeout changes which trial is shown next.
C14_GeneratorOrder ==
    /\ []AllPresentedAtReturn
    /\ [][PresentsNextOfList /\ ResponsesDoNotSteer]_vars

C14_Witness ==
    /\ s_pc = "main_write"
    /\ resp.none
    /\ run_idx = N_RUNS - 1
    /\ t_idx = N - 1
    /\ trial = trials[N]
    /\ trial # trials[1]

-----------------------------------------------------------------------------
(* The rows *)

Last(sq) == sq[Len(sq)]

\* The slot of a key: the position of the key among the response keys.
ChosenSlot(key) == CHOOSE i \in DOMAIN RESPONSE_KEYS : RESPONSE_KEYS[i] = key

\* The stimulus the trial being run asks for.
CorrectStim == IF s_pc = "wm_write" THEN trial.sample_stim ELSE trial.correct_next_stim

\* A step that writes a row comes after the response phase of the trial
\* last shown, writes the row of that trial, and scores it.
WritesRowOfTrial ==
    csv' # csv =>
        /\ s_pc \in {"wm_write", "main_write"}
        /\ csv' = Append(csv, Last(presented))
        /\ Len(csv') = Len(presented)
        /\ row'.block = Last(presented).block
        /\ row'.trial = Last(presented).trial
        /\ row'.correct_stim = CorrectStim
        /\ row'.slot_mapping = Join(slot_mapping)
        /\ resp.none =>
            /\ row'.correct = 0
            /\ row'.response_key = PyNone
            /\ row'.response_slot = NoNumber
            /\ row'.response_stim = PyNone
            /\ row'.rt = NoNumber
        /\ ~resp.none =>
            /\ row'.response_key = resp.key
            /\ row'.response_slot = ChosenSlot(resp.key)
            /\ row'.response_stim = slot_mapping[ChosenSlot(resp.key)]
            /\ row'.rt = resp.rt
            /\ row'.correct \in {0, 1}
            /\ row'.correct = 1 <=> slot_mapping[ChosenSlot(resp.key)] = CorrectStim

\* A trial is shown only when every trial shown before it has its row.
RowBeforeNextTrial ==
    presented' # presented => csv = presented

\* The rows are the trials shown, in the order shown; at most the trial
\* being run has no row yet, and a runner that returns has written them all.
RowsFollowTrials ==
    /\ Len(csv) <= Len(presented)
    /\ Len(presented) <= Len(csv) + 1
    /\ csv = SubSeq(presented, 1, Len(csv))
    /\ s_pc \in {"wm_trial", "main_run", "main_trial"} => csv = presented
    /\ exc = <<>> /\ s_pc \notin {"wm_respond", "wm_write", "main_respond", "main_write"}
           => csv = presented

\* C19: each trial shown gets exactly one row, written after its response
\* phase and before the next trial is shown, the rows in trial order; a
\* timeout is recorded as correct = 0 with response_key, response_slot,
\* response_stim and rt None; a key press is recorded as correct = 1
\* exactly when the stimulus in the chosen slot is the trial's correct
\* stimulus.
C19_OneRowPerTrial ==
    /\ []RowsFollowTrials
    /\ [][WritesRowOfTrial /\ RowBeforeNextTrial]_vars

C19_Witness ==
    /\ s_pc = "main_trial"
    /\ Len(csv) = Len(WmBase) + N
    /\ csv = presented
    /\ row.block = MainBlock(N_RUNS - 1)
    /\ row.response_slot = Len(RESPONSE_KEYS)
    /\ row.response_stim = row.correct_stim
    /\ row.correct = 1

-----------------------------------------------------------------------------
(* main *)

NormalOrder ==
    <<"instr_wm", "wm_task", "wm_task_done",
      "instr_rest", "rest", "rest_done",
      "instr_main", "main_task", "main_task_done",
      "end_screen", "log_finished">>

Logged == <<"log_error", "raise">>

CleanUp == <<"csv_close", "win_close", "quit">>

IsPrefix(a, b) == Len(a) <= Len(b) /\ a = SubSeq(b, 1, Len(a))

Happened(e) == \E k \in DOMAIN events : events[k] = e

\* Every history main can leave: the blocks in order up to some point,
\* the log entry and the raise if an Exception was caught, the clean-up.
Histories ==
    { SubSeq(NormalOrder, 1, k) \o e \o CleanUp :
        k \in 0..Len(NormalOrder), e \in {<<>>, Logged} }

BlocksInOrder == \E h \in Histories : IsPrefix(events, h)

MainTaskPositions == {"main_run", "main_trial", "main_respond", "main_write"}

\* The main task runs only after the WM task and the rest have returned
\* and its own instruction screen has been shown.
MainAfterWmAndRest ==
    (s_pc \in MainTaskPositions \/ Happened("main_task")) =>
        IsPrefix(<<"instr_wm", "wm_task", "wm_task_done",
                   "instr_rest", "rest", "rest_done", "instr_main", "main_task">>,
                 events)

RaisedInTry == exc # <<>> /\ exc[1] \in Raisable

\* When main is left: close was called on the file, then the window was
\* closed, whatever happened before and whether or not close failed.
CleanedUpAtExit ==
    s_pc = "exited" =>
        /\ win = "closed"
        /\ csv_file \in {"closed", "close_failed"}
        /\ \E k \in 0..Len(events) : events = SubSeq(events, 1, k) \o CleanUp
        /\ ~RaisedInTry => events = NormalOrder \o CleanUp
        /\ exc = <<>> => csv_file = "closed"
        /\ RaisedInTry =>
            /\ ~Happened("log_finished")
            /\ Caught(exc[1]) <=> Happened("log_error")
            /\ Caught(exc[1]) =>
                \E k \in 0..(Len(NormalOrder) - 1) :
                    events = SubSeq(NormalOrder, 1, k) \o Logged \o CleanUp

\* main does not stop before the clean-up is done.
RunsToExit == s_pc # "exited" => ENABLED NextSession

\* The except clause logs and raises again: the exception stays in flight,
\* and no later step drops an exception in flight.
ReRaised ==
    /\ s_pc = "except" =>
        /\ exc' = exc
        /\ events' = events \o Logged
        /\ s_pc' = "finally_csv"
    /\ exc # <<>> => IsPrefix(exc, exc')

\* C20: main shows the WM instructions, runs the WM task, shows the rest
\* instructions, runs the rest, shows the main instructions, runs the main
\* task, shows the end screen, in that order, so the main task starts
\* only after the WM task and the rest have returned; whether the try body
\* finishes or raises, csv_file.close() is called and then the window is
\* closed, also when the close fails; an Exception is logged and raised
\* again before the clean-up.
C20_BlocksAndCleanUp ==
    /\ [](BlocksInOrder /\ MainAfterWmAndRest /\ CleanedUpAtExit /\ RunsToExit)
    /\ [][ReRaised]_vars

C20_Witness ==
    /\ s_pc = "exited"
    /\ exc = <<"Exception", "OSError">>
    /\ csv_file = "close_failed"
    /\ win = "closed"
    /\ Happened("main_task")
    /\ Happened("log_error")
    /\ Len(csv) > Len(WmBase)

=============================================================================
